---- MODULE Spec2Model ----
(***************************************************************************)
(* GeminiLiveClient (src/gemini-live/gemini-live-client.ts): the streaming *)
(* session client.  One client instance, the WebSocket handles it creates, *)
(* the timers it arms and the caller / transport events that drive it.     *)
(*                                                                         *)
(* Every handler of the class runs to completion on the JavaScript event   *)
(* loop, so each action below is one whole handler or one whole public     *)
(* method, with every call it makes.                                       *)
(***************************************************************************)
EXTENDS Integers, Sequences, FiniteSets, TLC

\* ---------------------------------------------------------------- bounds
\* transport handles (calls of connect()) in the full specification
MaxHandles == 3
\* transport handles in the reconnection specification (no data traffic)
MaxHandlesR == 4
\* send* calls
MaxMsgs == 2
\* interrupt() calls that reach a transport
MaxInterrupts == 1
\* connect() calls made by the caller (the others are made by reconnect timers)
MaxConnects == 2
\* transport handles in the outbound and session specifications
MaxHandlesM == 2
\* send* calls in the session specification
MaxMsgsM == 1
\* transport handles in the dispatch specification
MaxHandlesI == 1
\* inbound frames in the dispatch specification
MaxInbound == 2
\* transport handles in the connect timeout specification
MaxHandlesT == 4
\* connect() calls made by the caller in the reconnection progress specification
MaxConnectsL == 1
\* transport handles in the configuration specification
MaxHandlesC == 2
\* session identifiers the remote side hands out: 1..MaxSid
MaxSid == 2

\* ------------------------------------------------------- program constants
\* private maxReconnectAttempts: number = 3
maxReconnectAttempts == 3
\* Math.pow(2, this.reconnectAttempts) * 1000
baseDelay == 1000
\* config.interruptionThreshold || 0.5, in hundredths
defaultThreshold == 50

VARIABLES
    ws,                 \* this.ws: 0 is null, else the handle
    isConnected,        \* this.isConnected
    sessionId,          \* this.sessionId: 0 is null
    messageQueue,       \* this.messageQueue
    reconnectAttempts,  \* this.reconnectAttempts
    hstate,             \* readyState of every WebSocket created so far
    origin,             \* who called the connect() that created the handle
    promise,            \* the promise that connect() returned
    wire,               \* frames the transport accepted, per handle
    pendingTimers,      \* reconnect timers armed by attemptReconnect and not yet fired
    nextHandle,         \* handles are numbered in creation order
    nextId,             \* send* calls are numbered in call order
    nInterrupts,        \* interrupt frames sent so far
    emitted,            \* events raised by the last handler, in order
    halted,             \* "no", "crashed" (uncaught exception), "hung" (endless loop)
    sendAfterClose,     \* what ws.send does on a CLOSING/CLOSED socket: "throw" or "drop"
    lifecycle,          \* history: "live", then for good "userClosed", "userClosedInBackoff" or "exhausted"
    nMaxReached,        \* history: number of max_reconnect_reached events
    consecCloses,       \* history: close events since the last open event
    delays,             \* history: delays scheduled since the last open event
    offline,            \* history: ids queued while not connected, not cleared by disconnect()
    inbound,            \* the inbound frame the last handler was given, and its handle
    sidSeen,            \* history: the handle has received a frame that carries a session id
    interruptDropped,   \* history (outbound specification): an interrupt() call found the client not connected
    frameLog,           \* history (dispatch specification): the inbound frames, in arrival order
    eventLog,           \* history (dispatch specification): the events raised for them, in order
    everOpened,         \* history: some handle has raised 'open'
    supplied,           \* the argument of the constructor
    config,             \* this.config
    sidHeard            \* what getSessionId() returns to the listeners of each event of the last handler

vars == <<ws, isConnected, sessionId, messageQueue, reconnectAttempts, hstate, origin,
          promise, wire, pendingTimers, nextHandle, nextId, nInterrupts, emitted, halted,
          sendAfterClose, lifecycle, nMaxReached, consecCloses, delays, offline,
          inbound, sidSeen, interruptDropped, frameLog, eventLog,
          everOpened, supplied, config, sidHeard>>

\* the handle space is as large as the largest bound in use
Handles ==
    1..CHOOSE n \in {MaxHandles, MaxHandlesR, MaxHandlesM, MaxHandlesI, MaxHandlesT} :
           \A k \in {MaxHandles, MaxHandlesR, MaxHandlesM, MaxHandlesI, MaxHandlesT} : k <= n

\* connect() calls the caller has made
CallerConnects == Cardinality({h \in Handles : origin[h] = "caller"})

MsgTypes == {"text", "video", "audio", "function_call"}

\* an event raised on the EventEmitter
Ev(name, arg) == [name |-> name, arg |-> arg]

\* the frame written by sendConfiguration
ConfigFrame ==
    [type |-> "configure", id |-> 0, sid |-> 0,
     config |-> [thinking_level |-> config.thinkingLevel,
                 media_resolution |-> config.mediaResolution,
                 vad_config |-> [enabled |-> config.vadEnabled,
                                 interruption_threshold |-> config.interruptionThreshold],
                 tools |-> [search_grounding |-> config.searchGrounding,
                            code_execution |-> TRUE,
                            function_calling |-> TRUE]]]

\* the frame written by interrupt()
InterruptFrame == [type |-> "interrupt", id |-> 0, sid |-> 0]

\* message.type values that handleMessage tells apart; "other" is any other value
InTypes == {"text", "audio", "function_call", "thinking", "error", "chunk", "other"}

\* values of message.content that are strings, of message.function_name and of
\* message.arguments; "none" is a field that is absent
Contents == {"c1", "c2"}
Names == {"lookup", "search"}
Arguments == {"q"}

\* an inbound frame that JSON.parse accepts
Frame(i, ty, c, n, a) ==
    [ok |-> TRUE, sid |-> i, type |-> ty, content |-> c, function_name |-> n, arguments |-> a]

\* an inbound frame that JSON.parse rejects
Malformed ==
    [ok |-> FALSE, sid |-> 0, type |-> "none", content |-> "none",
     function_name |-> "none", arguments |-> "none"]

\* inbound frames: sid 0 is a frame without sessionId; only an audio frame is
\* told apart by a content that is not a string
InFrames ==
    {Malformed}
    \cup {Frame(i, ty, c, "none", "none") :
              i \in 0..MaxSid, ty \in InTypes \ {"function_call"}, c \in Contents}
    \cup {Frame(i, "audio", "none", "none", "none") : i \in 0..MaxSid}
    \cup {Frame(i, "function_call", "none", n, a) :
              i \in 0..MaxSid, n \in Names, a \in Arguments}

\* the inbound frames that differ in what handleMessage does to the client: the
\* type and the payload of a frame select the event and nothing else
SessionFrames == {f \in InFrames : f.type \in {"none", "text"} /\ f.content \in {"none", "c1"}}

\* no inbound frame was handled in the last step
NoFrame == [h |-> 0, frame |-> Malformed]

RECURSIVE Pow2(_)
Pow2(n) == IF n = 0 THEN 1 ELSE 2 * Pow2(n - 1)

\* the optional fields of GeminiLiveConfig that reach the configure frame
Options ==
    {"thinkingLevel", "mediaResolution", "vadEnabled", "interruptionThreshold",
     "searchGrounding"}

\* 'low' | 'medium' | 'high'
Levels == {"low", "medium", "high"}

\* interruption thresholds in [0, 1], in hundredths
Thresholds == {0, 30, 100}

\* a GeminiLiveConfig with none of the optional fields
NoOptions ==
    [given |-> {}, thinkingLevel |-> "medium", mediaResolution |-> "medium",
     vadEnabled |-> FALSE, interruptionThreshold |-> 0, searchGrounding |-> FALSE]

\* the arguments of the constructor: `given` holds the optional fields that are
\* present, and a field that is absent (undefined) is written as in NoOptions
GeminiLiveConfigs ==
    {c \in [given : SUBSET Options, thinkingLevel : Levels, mediaResolution : Levels,
            vadEnabled : BOOLEAN, interruptionThreshold : Thresholds,
            searchGrounding : BOOLEAN] :
        \A o \in Options \ c.given : c[o] = NoOptions[o]}

\* the constructor: x || d takes d when x is undefined, 0 or false, and
\* x !== false is true when x is undefined
Constructor(c) ==
    [thinkingLevel |-> IF "thinkingLevel" \in c.given THEN c.thinkingLevel ELSE "medium",
     mediaResolution |-> IF "mediaResolution" \in c.given THEN c.mediaResolution ELSE "medium",
     vadEnabled |-> ~("vadEnabled" \in c.given /\ c.vadEnabled = FALSE),
     interruptionThreshold |->
         IF "interruptionThreshold" \in c.given /\ c.interruptionThreshold # 0
         THEN c.interruptionThreshold ELSE defaultThreshold,
     searchGrounding |-> "searchGrounding" \in c.given /\ c.searchGrounding]

\* the client that the constructor leaves, given its argument
Constructed ==
    /\ config = Constructor(supplied)
    /\ ws = 0
    /\ isConnected = FALSE
    /\ sessionId = 0
    /\ messageQueue = <<>>
    /\ reconnectAttempts = 0
    /\ hstate = [h \in Handles |-> "none"]
    /\ origin = [h \in Handles |-> "none"]
    /\ promise = [h \in Handles |-> "none"]
    /\ wire = [h \in Handles |-> <<>>]
    /\ pendingTimers = 0
    /\ nextHandle = 1
    /\ nextId = 1
    /\ nInterrupts = 0
    /\ emitted = <<>>
    /\ halted = "no"
    /\ sendAfterClose \in {"throw", "drop"}
    /\ lifecycle = "live"
    /\ nMaxReached = 0
    /\ consecCloses = 0
    /\ delays = <<>>
    /\ offline = {}
    /\ inbound = NoFrame
    /\ sidSeen = [h \in Handles |-> FALSE]
    /\ interruptDropped = FALSE
    /\ frameLog = <<>>
    /\ eventLog = <<>>
    /\ everOpened = FALSE
    /\ sidHeard = <<>>

\* a client constructed with the API key alone
Init == supplied = NoOptions /\ Constructed

\* a client constructed with any argument
InitC == supplied \in GeminiLiveConfigs /\ Constructed

\* ------------------------------------------------------------ the handlers
\* A handler is a function from the state it starts in to the state it leaves.
\* The state is a record of all the variables plus "status": "ok", "threw"
\* (an exception is propagating) or "hung" (a loop that cannot end).

Cur ==
    [ws |-> ws, isConnected |-> isConnected, sessionId |-> sessionId,
     messageQueue |-> messageQueue, reconnectAttempts |-> reconnectAttempts,
     hstate |-> hstate, origin |-> origin, promise |-> promise, wire |-> wire,
     pendingTimers |-> pendingTimers, nextHandle |-> nextHandle, nextId |-> nextId,
     nInterrupts |-> nInterrupts, emitted |-> <<>>, lifecycle |-> lifecycle,
     nMaxReached |-> nMaxReached, consecCloses |-> consecCloses, delays |-> delays,
     offline |-> offline, inbound |-> NoFrame, sidSeen |-> sidSeen,
     interruptDropped |-> interruptDropped, frameLog |-> frameLog,
     eventLog |-> eventLog, everOpened |-> everOpened, sidHeard |-> <<>>,
     status |-> "ok"]

\* s without its status, written back to the variables
Commit(s) ==
    /\ ws' = s.ws
    /\ isConnected' = s.isConnected
    /\ sessionId' = s.sessionId
    /\ messageQueue' = s.messageQueue
    /\ reconnectAttempts' = s.reconnectAttempts
    /\ hstate' = s.hstate
    /\ origin' = s.origin
    /\ promise' = s.promise
    /\ wire' = s.wire
    /\ pendingTimers' = s.pendingTimers
    /\ nextHandle' = s.nextHandle
    /\ nextId' = s.nextId
    /\ nInterrupts' = s.nInterrupts
    /\ emitted' = s.emitted
    /\ lifecycle' = s.lifecycle
    /\ nMaxReached' = s.nMaxReached
    /\ consecCloses' = s.consecCloses
    /\ delays' = s.delays
    /\ offline' = s.offline
    /\ inbound' = s.inbound
    /\ sidSeen' = s.sidSeen
    /\ interruptDropped' = s.interruptDropped
    /\ frameLog' = s.frameLog
    /\ eventLog' = s.eventLog
    /\ everOpened' = s.everOpened
    /\ sidHeard' = s.sidHeard
    /\ UNCHANGED <<sendAfterClose, supplied, config>>

\* this.emit(name, arg).  The caller has registered its listeners, one for
\* 'error' among them, and a listener calls nothing of the client that changes
\* it; the listeners run inside emit and see the fields as they are then.
Emit(s, name, arg) ==
    [s EXCEPT !.emitted = Append(@, Ev(name, arg)),
              !.sidHeard = Append(@, s.sessionId)]

\* this.ws.send(frame) of the ws package: a CONNECTING socket throws, an OPEN
\* socket takes the frame, a CLOSING or CLOSED socket throws or discards the
\* frame, depending on the version of the package
WsSend(s, frame) ==
    LET st == s.hstate[s.ws] IN
    IF st = "open" THEN [s EXCEPT !.wire[s.ws] = Append(@, frame)]
    ELSE IF st = "connecting" \/ sendAfterClose = "throw" THEN [s EXCEPT !.status = "threw"]
    ELSE s

\* sendConfiguration()
SendConfiguration(s) ==
    IF s.ws = 0 \/ ~s.isConnected THEN s ELSE WsSend(s, ConfigFrame)

\* sendMessage(message) that refuses a message while the client is not connected
SendMessageRejectOffline(s, m) ==
    IF ~s.isConnected \/ s.ws = 0
    THEN [s EXCEPT !.status = "threw"]
    ELSE LET r == WsSend(s, m) IN
         IF r.status = "threw"
         THEN [r EXCEPT !.messageQueue = Append(@, m)]
         ELSE Emit(r, "sent", m.id)

\* sendMessage(message) that puts every message on the queue before it tries to
\* send it, and leaves it there
SendMessageKeepQueued(s, m) ==
    LET q == [s EXCEPT !.messageQueue = Append(@, m)] IN
    IF ~s.isConnected \/ s.ws = 0
    THEN [q EXCEPT !.offline = IF s.isConnected THEN @ ELSE @ \cup {m.id}]
    ELSE LET r == WsSend(q, m) IN
         IF r.status = "threw" THEN r ELSE Emit(r, "sent", m.id)

\* sendMessage(message): status "threw" is the rejection of the returned promise
SendMessage(s, m) ==
    IF ~s.isConnected \/ s.ws = 0
    THEN [s EXCEPT !.messageQueue = Append(@, m),
                   !.offline = IF s.isConnected THEN @ ELSE @ \cup {m.id}]
    ELSE LET r == WsSend(s, m) IN
         IF r.status = "threw"
         THEN [r EXCEPT !.messageQueue = Append(@, m)]
         ELSE Emit(r, "sent", m.id)

\* processQueue() that takes the newest message first (pop() for shift())
RECURSIVE ProcessQueueNewestFirst(_)
ProcessQueueNewestFirst(s) ==
    IF Len(s.messageQueue) > 0 /\ s.isConnected
    THEN LET n == Len(s.messageQueue)
             m == s.messageQueue[n]
             r == SendMessage([s EXCEPT !.messageQueue = SubSeq(@, 1, n - 1)], m)
         IN  IF Len(r.messageQueue) = n
             THEN [s EXCEPT !.status = "hung"]
             ELSE ProcessQueueNewestFirst([r EXCEPT !.status = "ok"])
    ELSE s

\* processQueue(): the while loop.  sendMessage(...).catch(console.error) swallows
\* the rejection.  An iteration that puts the message back leaves ws, isConnected
\* and the socket as they were, so every later iteration does the same and the
\* loop never ends.
RECURSIVE ProcessQueue(_)
ProcessQueue(s) ==
    IF Len(s.messageQueue) > 0 /\ s.isConnected
    THEN LET m == Head(s.messageQueue)
             r == SendMessage([s EXCEPT !.messageQueue = Tail(@)], m)
         IN  IF Len(r.messageQueue) = Len(s.messageQueue)
             THEN [s EXCEPT !.status = "hung"]
             ELSE ProcessQueue([r EXCEPT !.status = "ok"])
    ELSE s

\* resolve() of the promise of handle h, and what awaits it: the caller, or the
\* timer callback of attemptReconnect, which then emits 'reconnect'
Resolve(s, h) ==
    IF s.promise[h] \in {"pending", "expired"}
    THEN LET r == [s EXCEPT !.promise[h] = "resolved"] IN
         IF s.origin[h] = "timer" THEN Emit(r, "reconnect", 0) ELSE r
    ELSE s

\* reject(error) of the promise of handle h; the timer callback only logs it
Reject(s, h) ==
    IF s.promise[h] \in {"pending", "expired"}
    THEN [s EXCEPT !.promise[h] = "rejected"]
    ELSE s

\* attemptReconnect() that counts the attempt and arms no timer
AttemptReconnectNoTimer(s) ==
    IF s.reconnectAttempts >= maxReconnectAttempts
    THEN [Emit(s, "max_reconnect_reached", 0) EXCEPT
              !.nMaxReached = @ + 1,
              !.lifecycle = IF @ = "live" THEN "exhausted" ELSE @]
    ELSE [s EXCEPT !.reconnectAttempts = @ + 1,
                   !.delays = Append(@, Pow2(s.reconnectAttempts + 1) * baseDelay)]

\* attemptReconnect() with the budget test off by one (> for >=)
AttemptReconnectOffByOne(s) ==
    IF s.reconnectAttempts > maxReconnectAttempts
    THEN [Emit(s, "max_reconnect_reached", 0) EXCEPT
              !.nMaxReached = @ + 1,
              !.lifecycle = IF @ = "live" THEN "exhausted" ELSE @]
    ELSE [s EXCEPT !.reconnectAttempts = @ + 1,
                   !.pendingTimers = @ + 1,
                   !.delays = Append(@, Pow2(s.reconnectAttempts + 1) * baseDelay)]

\* attemptReconnect() with the delay computed before the counter is incremented
AttemptReconnectStaleDelay(s) ==
    IF s.reconnectAttempts >= maxReconnectAttempts
    THEN [Emit(s, "max_reconnect_reached", 0) EXCEPT
              !.nMaxReached = @ + 1,
              !.lifecycle = IF @ = "live" THEN "exhausted" ELSE @]
    ELSE [s EXCEPT !.reconnectAttempts = @ + 1,
                   !.pendingTimers = @ + 1,
                   !.delays = Append(@, Pow2(s.reconnectAttempts) * baseDelay)]

\* attemptReconnect()
AttemptReconnect(s) ==
    IF s.reconnectAttempts >= maxReconnectAttempts
    THEN [Emit(s, "max_reconnect_reached", 0) EXCEPT
              !.nMaxReached = @ + 1,
              !.lifecycle = IF @ = "live" THEN "exhausted" ELSE @]
    ELSE [s EXCEPT !.reconnectAttempts = @ + 1,
                   !.pendingTimers = @ + 1,
                   !.delays = Append(@, Pow2(s.reconnectAttempts + 1) * baseDelay)]

\* the 'open' handler with processQueue() called before sendConfiguration()
OnOpenDrainFirst(s, h) ==
    LET s1 == [s EXCEPT !.isConnected = TRUE, !.reconnectAttempts = 0]
        s2 == ProcessQueue(s1)
        s3 == SendConfiguration([s2 EXCEPT !.status = "ok"])
    IN  IF s2.status = "hung" THEN s2
        ELSE IF s3.status = "threw" THEN s3
        ELSE Resolve(s3, h)

\* the 'open' handler without the call of processQueue()
OnOpenNoDrain(s, h) ==
    LET s1 == [s EXCEPT !.isConnected = TRUE, !.reconnectAttempts = 0]
        s2 == SendConfiguration(s1)
    IN  IF s2.status = "threw" THEN s2 ELSE Resolve(s2, h)

\* this.ws.on('open', ...)
OnOpen(s, h) ==
    LET s1 == [s EXCEPT !.isConnected = TRUE, !.reconnectAttempts = 0]
        s2 == SendConfiguration(s1)
        s3 == ProcessQueue(s2)
    IN  IF s2.status = "threw" THEN s2
        ELSE IF s3.status = "hung" THEN s3
        ELSE Resolve(s3, h)

\* this.ws.on('error', ...)
OnError(s, h) ==
    LET s1 == Emit(s, "error", 0) IN
    IF ~s1.isConnected THEN Reject(s1, h) ELSE s1

\* this.ws.on('close', ...)
OnClose(s, h) ==
    AttemptReconnect(Emit([s EXCEPT !.isConnected = FALSE], "disconnect", 0))

\* connect(): the promise executor, called by o ("caller" or "timer")
ConnectCall(s, o) ==
    LET h == s.nextHandle IN
    [s EXCEPT !.ws = h, !.hstate[h] = "connecting", !.origin[h] = o,
              !.promise[h] = "pending", !.nextHandle = h + 1]

\* the setTimeout callback of connect() for handle h
OnTimeout(s, h) ==
    IF ~s.isConnected THEN Reject(s, h) ELSE [s EXCEPT !.promise[h] = "expired"]

\* ws.close() of the ws package: the close event comes later, and a socket
\* closed before it opened never opens
WsCloseCall(s) ==
    LET st == s.hstate[s.ws] IN
    [s EXCEPT !.hstate[s.ws] = IF st = "connecting" THEN "aborting"
                               ELSE IF st = "open" THEN "closing" ELSE st]

\* disconnect()
DisconnectCall(s) ==
    LET s1 == IF s.ws # 0
              THEN [WsCloseCall([s EXCEPT !.isConnected = FALSE]) EXCEPT !.ws = 0]
              ELSE s
    IN  [s1 EXCEPT !.sessionId = 0, !.messageQueue = <<>>]

\* interrupt() that defers the frame to the queue when the client is not connected
InterruptCallDeferred(s) ==
    IF s.ws = 0 \/ ~s.isConnected THEN [s EXCEPT !.messageQueue = Append(@, InterruptFrame)]
    ELSE LET r == WsSend(s, InterruptFrame) IN
         IF r.status = "ok" /\ s.hstate[s.ws] = "open"
         THEN [r EXCEPT !.nInterrupts = @ + 1] ELSE r

\* interrupt()
InterruptCall(s) ==
    IF s.ws = 0 \/ ~s.isConnected THEN s
    ELSE LET r == WsSend(s, InterruptFrame) IN
         IF r.status = "ok" /\ s.hstate[s.ws] = "open"
         THEN [r EXCEPT !.nInterrupts = @ + 1] ELSE r

\* sendText / streamVideo / streamAudio / callFunction of kind t
SendCall(s, t) ==
    SendMessage([s EXCEPT !.nextId = @ + 1],
                [type |-> t, id |-> s.nextId, sid |-> s.sessionId])

\* Buffer.from(content, 'base64'): the bytes the string encodes
Base64Decode(c) == <<"bytes", c>>

\* handleMessage(data), the body of the try for a frame that parses, with the
\* name and the arguments of a function call exchanged
DispatchSwapped(s, f) ==
    LET s1 == IF f.sid # 0 /\ s.sessionId = 0
              THEN Emit([s EXCEPT !.sessionId = f.sid], "session", f.sid)
              ELSE s
    IN  CASE f.type = "text" -> Emit(s1, "text", f.content)
          [] f.type = "audio" -> IF f.content \in Contents
                                 THEN Emit(s1, "audio", Base64Decode(f.content))
                                 ELSE Emit(s1, "error", 0)
          [] f.type = "function_call" ->
                 Emit(s1, "function_call", [name |-> f.arguments, arguments |-> f.function_name])
          [] f.type = "thinking" -> Emit(s1, "thinking", f.content)
          [] f.type = "error" -> Emit(s1, "error", [message |-> f.content])
          [] f.type = "chunk" -> Emit(s1, "chunk", f)
          [] OTHER -> Emit(s1, "message", f)

\* the dispatch that runs the switch first and takes the session id afterwards
DispatchSessionLast(s, f) ==
    LET t == CASE f.type = "text" -> Emit(s, "text", f.content)
               [] f.type = "audio" -> IF f.content \in Contents
                                      THEN Emit(s, "audio", Base64Decode(f.content))
                                      ELSE Emit(s, "error", 0)
               [] f.type = "function_call" ->
                      Emit(s, "function_call", [name |-> f.function_name, arguments |-> f.arguments])
               [] f.type = "thinking" -> Emit(s, "thinking", f.content)
               [] f.type = "error" -> Emit(s, "error", [message |-> f.content])
               [] f.type = "chunk" -> Emit(s, "chunk", f)
               [] OTHER -> Emit(s, "message", f)
    IN  IF f.sid # 0 /\ s.sessionId = 0
        THEN Emit([t EXCEPT !.sessionId = f.sid], "session", f.sid)
        ELSE t

\* the dispatch that takes the session id of every frame that carries another one
DispatchLatestSession(s, f) ==
    LET s1 == IF f.sid # 0 /\ s.sessionId # f.sid
              THEN Emit([s EXCEPT !.sessionId = f.sid], "session", f.sid)
              ELSE s
    IN  CASE f.type = "text" -> Emit(s1, "text", f.content)
          [] f.type = "audio" -> IF f.content \in Contents
                                 THEN Emit(s1, "audio", Base64Decode(f.content))
                                 ELSE Emit(s1, "error", 0)
          [] f.type = "function_call" ->
                 Emit(s1, "function_call", [name |-> f.function_name, arguments |-> f.arguments])
          [] f.type = "thinking" -> Emit(s1, "thinking", f.content)
          [] f.type = "error" -> Emit(s1, "error", [message |-> f.content])
          [] f.type = "chunk" -> Emit(s1, "chunk", f)
          [] OTHER -> Emit(s1, "message", f)

\* handleMessage(data), the body of the try for a frame that parses: the session
\* id, then the switch.  Buffer.from(message.content, 'base64') throws when
\* content is not a string, and the catch emits 'error'.
Dispatch(s, f) ==
    LET s1 == IF f.sid # 0 /\ s.sessionId = 0
              THEN Emit([s EXCEPT !.sessionId = f.sid], "session", f.sid)
              ELSE s
    IN  CASE f.type = "text" -> Emit(s1, "text", f.content)
          [] f.type = "audio" -> IF f.content \in Contents
                                 THEN Emit(s1, "audio", Base64Decode(f.content))
                                 ELSE Emit(s1, "error", 0)
          [] f.type = "function_call" ->
                 Emit(s1, "function_call", [name |-> f.function_name, arguments |-> f.arguments])
          [] f.type = "thinking" -> Emit(s1, "thinking", f.content)
          [] f.type = "error" -> Emit(s1, "error", [message |-> f.content])
          [] f.type = "chunk" -> Emit(s1, "chunk", f)
          [] OTHER -> Emit(s1, "message", f)

\* handleMessage(data) that treats a frame it cannot parse as the end of the
\* connection
HandleMessageFatal(s, f) ==
    IF ~f.ok THEN Emit([s EXCEPT !.isConnected = FALSE], "error", 0)
    ELSE Dispatch(s, f)

\* handleMessage(data): everything runs inside try/catch, and the catch emits
\* 'error'
HandleMessage(s, f) ==
    IF ~f.ok THEN Emit(s, "error", 0)
    ELSE Dispatch(s, f)

\* an exception that leaves an event handler is uncaught: the process ends,
\* unless the host installed an uncaughtException handler
AfterHandler(s) ==
    /\ Commit(s)
    /\ halted' \in CASE s.status = "hung" -> {"hung"}
                     [] s.status = "threw" -> {"no", "crashed"}
                     [] OTHER -> {"no"}

\* an exception that leaves a public method goes to the caller
AfterCall(s) ==
    /\ Commit(s)
    /\ halted' = halted

\* ---------------------------------------------------------------- actions

\* history: handle h has raised 'open'
Opened(s, h) ==
    [s EXCEPT !.hstate[h] = "open", !.consecCloses = 0, !.delays = <<>>, !.everOpened = TRUE]

\* history: handle h has raised 'close'
Closed(s, h) == [s EXCEPT !.hstate[h] = "closed", !.consecCloses = @ + 1]

\* history: disconnect() was called on a client that had been started
UserClosed(s) ==
    [s EXCEPT !.offline = {},
              !.lifecycle = IF nextHandle = 1 THEN @
                            ELSE IF pendingTimers > 0 THEN "userClosedInBackoff"
                            ELSE "userClosed"]

\* the caller calls connect()
Connect ==
    AfterCall(ConnectCall(Cur, "caller"))

\* a reconnect timer fires: the callback calls connect()
TimerFire ==
    /\ pendingTimers > 0
    /\ AfterCall(ConnectCall([Cur EXCEPT !.pendingTimers = @ - 1], "timer"))

\* the connection of handle h is established
WsOpen(h) ==
    /\ hstate[h] = "connecting"
    /\ AfterHandler(OnOpen(Opened(Cur, h), h))

\* the connection of handle h cannot be established: 'error', then 'close'
WsFail(h) ==
    /\ hstate[h] = "connecting"
    /\ AfterHandler(OnClose(OnError(Closed(Cur, h), h), h))

\* the open connection of handle h is closed by the remote side or the network
WsDrop(h) ==
    /\ hstate[h] = "open"
    /\ AfterHandler(OnClose(Closed(Cur, h), h))

\* the remote side starts the closing handshake of the open connection of
\* handle h: the socket is CLOSING, and 'close' is raised when the handshake ends
WsClosing(h) ==
    /\ hstate[h] = "open"
    /\ AfterHandler([Cur EXCEPT !.hstate[h] = "peerClosing"])

\* history: handle h was given frame f
Received(s, h, f) ==
    [s EXCEPT !.inbound = [h |-> h, frame |-> f],
              !.sidSeen[h] = @ \/ (f.ok /\ f.sid # 0)]

\* this.ws.on('message', ...): handle h receives frame f.  A socket that the
\* client closed still delivers the frames that arrive before the peer's close.
WsMessage(h, f) ==
    /\ hstate[h] \in {"open", "closing"}
    /\ AfterHandler(Received(HandleMessage(Cur, f), h, f))

\* history: frame f arrived and the handler raised its events
Logged(s, f) ==
    [s EXCEPT !.frameLog = Append(@, f), !.eventLog = @ \o s.emitted]

\* this.ws.on('message', ...), and the history keeps the frame and the events
WsMessageObserved(h, f) ==
    /\ hstate[h] \in {"open", "closing"}
    /\ AfterHandler(Logged(Received(HandleMessage(Cur, f), h, f), f))

\* the close that ws.close() or the remote side asked for completes; a handshake
\* aborted by ws.close() raises 'error' first
WsClosed(h) ==
    \/ /\ hstate[h] \in {"closing", "peerClosing"}
       /\ AfterHandler(OnClose(Closed(Cur, h), h))
    \/ /\ hstate[h] = "aborting"
       /\ AfterHandler(OnClose(OnError(Closed(Cur, h), h), h))

\* the 10 s timer of the connect() that created handle h fires
Timeout(h) ==
    /\ promise[h] = "pending"
    /\ AfterCall(OnTimeout(Cur, h))

\* the caller calls disconnect()
Disconnect ==
    AfterCall(UserClosed(DisconnectCall(Cur)))

\* the caller calls sendText, streamVideo, streamAudio or callFunction
Send(t) ==
    AfterCall(SendCall(Cur, t))

\* history: interrupt() is called, connected or not
Interrupted(s) ==
    [s EXCEPT !.interruptDropped = @ \/ ~isConnected \/ ws = 0]

\* the caller calls interrupt()
Interrupt ==
    AfterCall(InterruptCall(Cur))

\* the caller calls interrupt(), and the history keeps whether it was dropped
InterruptObserved ==
    AfterCall(Interrupted(InterruptCall(Cur)))

\* nothing runs once the process has ended or spins in a loop
Running == halted = "no"

Next ==
    \/ Running /\ nextHandle <= MaxHandles /\ CallerConnects < MaxConnects /\ Connect
    \/ Running /\ nextHandle <= MaxHandles /\ TimerFire
    \/ Running /\ \E h \in Handles : WsOpen(h)
    \/ Running /\ \E h \in Handles : WsFail(h)
    \/ Running /\ \E h \in Handles : WsDrop(h)
    \/ Running /\ \E h \in Handles : WsClosed(h)
    \/ Running /\ Disconnect
    \/ Running /\ \E t \in MsgTypes : nextId <= MaxMsgs /\ Send(t)
    \/ Running /\ nInterrupts < MaxInterrupts /\ Interrupt

Spec == Init /\ [][Next]_vars

\* reconnection alone: no data traffic, one more handle
NextR ==
    \/ Running /\ nextHandle <= MaxHandlesR /\ CallerConnects < MaxConnects /\ Connect
    \/ Running /\ nextHandle <= MaxHandlesR /\ TimerFire
    \/ Running /\ \E h \in Handles : WsOpen(h)
    \/ Running /\ \E h \in Handles : WsFail(h)
    \/ Running /\ \E h \in Handles : WsDrop(h)
    \/ Running /\ \E h \in Handles : WsClosed(h)
    \/ Running /\ Disconnect

SpecR == Init /\ [][NextR]_vars

\* outbound traffic: the send* calls and interrupt(), with the closing handshake
\* of the remote side, on at most MaxHandlesM handles
NextQ ==
    \/ Running /\ nextHandle <= MaxHandlesM /\ CallerConnects < MaxConnects /\ Connect
    \/ Running /\ nextHandle <= MaxHandlesM /\ TimerFire
    \/ Running /\ \E h \in Handles : WsOpen(h)
    \/ Running /\ \E h \in Handles : WsFail(h)
    \/ Running /\ \E h \in Handles : WsDrop(h)
    \/ Running /\ \E h \in Handles : WsClosing(h)
    \/ Running /\ \E h \in Handles : WsClosed(h)
    \/ Running /\ Disconnect
    \/ Running /\ \E t \in MsgTypes : nextId <= MaxMsgs /\ Send(t)
    \/ Running /\ nInterrupts < MaxInterrupts /\ InterruptObserved

SpecQ == Init /\ [][NextQ]_vars

\* the session: inbound frames and the send* calls that are stamped with the
\* session id
NextM ==
    \/ Running /\ nextHandle <= MaxHandlesM /\ CallerConnects < MaxConnects /\ Connect
    \/ Running /\ nextHandle <= MaxHandlesM /\ TimerFire
    \/ Running /\ \E h \in Handles : WsOpen(h)
    \/ Running /\ \E h \in Handles : WsFail(h)
    \/ Running /\ \E h \in Handles : WsDrop(h)
    \/ Running /\ \E h \in Handles : WsClosed(h)
    \/ Running /\ \E h \in Handles, f \in SessionFrames : WsMessage(h, f)
    \/ Running /\ Disconnect
    \/ Running /\ \E t \in MsgTypes : nextId <= MaxMsgsM /\ Send(t)

SpecM == Init /\ [][NextM]_vars

\* the dispatcher: every kind of inbound frame on one connection, with the send*
\* calls
NextI ==
    \/ Running /\ nextHandle <= MaxHandlesI /\ Connect
    \/ Running /\ \E h \in Handles : WsOpen(h)
    \/ Running /\ \E h \in Handles, f \in InFrames :
                      Len(frameLog) < MaxInbound /\ WsMessageObserved(h, f)
    \/ Running /\ \E t \in MsgTypes : nextId <= MaxMsgs /\ Send(t)

SpecI == Init /\ [][NextI]_vars

\* connecting: the 10 s timer of every connect() with the transport events
NextT ==
    \/ Running /\ nextHandle <= MaxHandlesT /\ CallerConnects < MaxConnects /\ Connect
    \/ Running /\ nextHandle <= MaxHandlesT /\ TimerFire
    \/ Running /\ \E h \in Handles : WsOpen(h)
    \/ Running /\ \E h \in Handles : WsFail(h)
    \/ Running /\ \E h \in Handles : WsDrop(h)
    \/ Running /\ \E h \in Handles : WsClosed(h)
    \/ Running /\ \E h \in Handles : Timeout(h)
    \/ Running /\ Disconnect

SpecT == Init /\ [][NextT]_vars

\* what the event loop and the network are bound to do: an armed timer fires, a
\* connection attempt ends by opening or by failing, a closing handshake ends.
\* Each of these steps uses up a timer, a pending promise or a socket state, of
\* which there are finitely many, so fairness of the step for some handle is
\* fairness for every handle.
FairnessT ==
    /\ WF_vars(Running /\ nextHandle <= MaxHandlesT /\ TimerFire)
    /\ WF_vars(Running /\ \E h \in Handles : Timeout(h))
    /\ WF_vars(Running /\ \E h \in Handles : WsOpen(h) \/ WsFail(h))
    /\ WF_vars(Running /\ \E h \in Handles : WsClosed(h))

SpecTF == SpecT /\ FairnessT

\* reconnection progress: one connect() of the caller, whose connection is lost,
\* and the attempts the client makes by itself afterwards
NextL ==
    \/ Running /\ nextHandle <= MaxHandlesT /\ CallerConnects < MaxConnectsL /\ Connect
    \/ Running /\ nextHandle <= MaxHandlesT /\ TimerFire
    \/ Running /\ \E h \in Handles : WsOpen(h)
    \/ Running /\ \E h \in Handles : WsFail(h)
    \/ Running /\ \E h \in Handles : WsDrop(h)
    \/ Running /\ \E h \in Handles : WsClosed(h)
    \/ Running /\ \E h \in Handles : Timeout(h)
    \/ Running /\ Disconnect

SpecL == Init /\ [][NextL]_vars

SpecLF == SpecL /\ FairnessT

\* the configuration: a client constructed with any argument connects, loses
\* the connection and reconnects
NextC ==
    \/ Running /\ nextHandle <= MaxHandlesC /\ CallerConnects < MaxConnectsL /\ Connect
    \/ Running /\ nextHandle <= MaxHandlesC /\ TimerFire
    \/ Running /\ \E h \in Handles : WsOpen(h)
    \/ Running /\ \E h \in Handles : WsFail(h)
    \/ Running /\ \E h \in Handles : WsDrop(h)

SpecC == InitC /\ [][NextC]_vars

\* ------------------------------------------------------- observation helpers

\* the ids of the data frames of a wire, in the order the transport took them
RECURSIVE DataIds(_)
DataIds(w) ==
    IF w = <<>> THEN <<>>
    ELSE IF Head(w).type \in MsgTypes THEN <<Head(w).id>> \o DataIds(Tail(w))
    ELSE DataIds(Tail(w))

\* the ids of the messages some transport took
Delivered == UNION {{DataIds(wire[h])[i] : i \in 1..Len(DataIds(wire[h]))} : h \in Handles}

\* the data frames of handle h went out in call order
InCallOrder(h) ==
    \A i, j \in 1..Len(DataIds(wire[h])) : i < j => DataIds(wire[h])[i] < DataIds(wire[h])[j]

\* the client is Active on its current transport
ActiveOnCurrent == isConnected /\ ws # 0 /\ hstate[ws] = "open"

\* the handlers of the last step raised the event
Raised(name) == \E i \in 1..Len(emitted) : emitted[i].name = name

\* the number of interrupt frames in a sequence of frames
RECURSIVE InterruptsIn(_)
InterruptsIn(w) ==
    IF w = <<>> THEN 0
    ELSE (IF Head(w).type = "interrupt" THEN 1 ELSE 0) + InterruptsIn(Tail(w))

\* the number of interrupt frames handle h has taken
InterruptsOn(h) == InterruptsIn(wire[h])

\* the message that a send* call of kind t made now would create
NewMessage(t) == [type |-> t, id |-> nextId, sid |-> sessionId]

\* the events of that name that the handlers of the last step raised
NRaised(name) == Cardinality({i \in 1..Len(emitted) : emitted[i].name = name})

\* the last step handled an inbound frame on handle h that carries a session id
SidFrameOn(h) == inbound.h = h /\ inbound.frame.ok /\ inbound.frame.sid # 0

\* the events of a sequence other than 'session': one per frame is expected
TypedEvents(es) == SelectSeq(es, LAMBDA e : e.name # "session")

\* the message.type values that have a case of their own in the switch
KnownTypes == {"text", "audio", "function_call", "thinking", "error", "chunk"}

\* the connect() that created handle h was rejected by its 10 s timer, and the
\* socket is still connecting
TimedOut(h) == promise[h] = "rejected" /\ hstate[h] = "connecting"

\* the number of configure frames handle h has taken
Configures(h) == Cardinality({i \in 1..Len(wire[h]) : wire[h][i].type = "configure"})

\* the promise of the connect() that created handle h is neither resolved nor
\* rejected
Unsettled(h) == promise[h] \in {"pending", "expired"}

\* the client lost a connection it had, nobody called disconnect(), and it is
\* neither connected again nor out of attempts
Reconnecting ==
    everOpened /\ ~isConnected /\ consecCloses > 0 /\ lifecycle = "live"

\* the number of times message id is in the outbound queue
Queued(id) ==
    Cardinality({i \in 1..Len(messageQueue) : messageQueue[i].id = id})

\* the ids of the messages that ws.send took in the last step, in the order it
\* took them: 'sent' is emitted right after ws.send returns
HandedOver ==
    LET sent == SelectSeq(emitted, LAMBDA e : e.name = "sent")
    IN  [i \in 1..Len(sent) |-> sent[i].arg]

\* the number of times ws.send took message id in the last step
Handed(id) ==
    Cardinality({i \in 1..Len(HandedOver) : HandedOver[i] = id})

\* handle h, which is not the current handle this.ws, raises 'open' or 'close'
\* in this step
StaleEvent(h) ==
    h # ws /\ hstate'[h] # hstate[h] /\ hstate'[h] \in {"open", "closed"}

\* the configure frames that the transports took
ConfigureFrames ==
    UNION {{wire[h][i] : i \in {j \in 1..Len(wire[h]) : wire[h][j].type = "configure"}} :
              h \in Handles}

\* a connection that was not closed by disconnect() ends in this step
UnexpectedClose ==
    \E h \in Handles : hstate[h] \in {"connecting", "open"} /\ hstate'[h] = "closed"

\* ------------------------------------------------------------------ claims

\* C1: on every handle the configure frame is the first frame handed to it; no
\* text, video, audio, function_call or interrupt frame precedes it.
C1_ConfigureFirst ==
    \A h \in Handles : wire[h] # <<>> => wire[h][1] = ConfigFrame

\* C1 witness: a connection made by a reconnect timer carries the configure
\* frame, then a queued data frame, and an interrupt frame.
C1_Witness ==
    \E h \in Handles :
        /\ origin[h] = "timer"
        /\ Len(wire[h]) >= 3
        /\ wire[h][1] = ConfigFrame
        /\ wire[h][2].type \in MsgTypes
        /\ \E i \in 1..Len(wire[h]) : wire[h][i] = InterruptFrame

\* C2: after disconnect() no reconnection attempt is scheduled or executed and
\* no reconnection event is raised.
C2_NoReconnectAfterDisconnect ==
    [][(lifecycle # "live" /\ lifecycle # "exhausted")
         => (~Raised("reconnect"))' /\ pendingTimers' = pendingTimers]_vars

\* C3: a reconnect timer that was pending when disconnect() was called opens no
\* transport connection when it fires, and the client does not become Active.
C3_BackoffCancelled ==
    [][lifecycle = "userClosedInBackoff"
         => /\ pendingTimers' < pendingTimers => nextHandle' = nextHandle
            /\ isConnected' => isConnected]_vars

\* C4: once the client is Active on its transport, the remote side has received
\* every message that was queued while the client was not connected, in call
\* order, after the configure frame.
C4_QueuedDelivered ==
    ActiveOnCurrent =>
        /\ offline \subseteq Delivered
        /\ \A h \in Handles : InCallOrder(h)
        /\ \A h \in Handles : wire[h] # <<>> => Head(wire[h]).type = "configure"

\* C5: an unexpected close with attempt budget left schedules a reconnect, and
\* once a connection made by a reconnect timer is Active, the configure frame
\* and then every message queued during the outage have been sent, in order.
C5_ReconnectRedelivers ==
    [][/\ (ActiveOnCurrent /\ origin[ws] = "timer"
            => /\ wire[ws] # <<>> /\ wire[ws][1] = ConfigFrame
               /\ offline \subseteq Delivered
               /\ InCallOrder(ws))'
       /\ UnexpectedClose /\ reconnectAttempts < maxReconnectAttempts
            => pendingTimers' = pendingTimers + 1]_vars

\* C6: Closed is terminal: after max_reconnect_reached or disconnect() no new
\* connection is opened, no reconnect is scheduled and the client does not
\* become Active.
C6_ClosedTerminal ==
    [][lifecycle # "live"
         => /\ nextHandle' = nextHandle
            /\ pendingTimers' <= pendingTimers
            /\ isConnected' => isConnected]_vars

\* C7: after maxReconnectAttempts consecutive unexpected disconnects the client
\* has raised max_reconnect_reached, and it raises it once, never twice.
C7_MaxReachedOnce ==
    /\ nMaxReached <= 1
    /\ consecCloses >= maxReconnectAttempts => nMaxReached = 1

\* C8: the delay before reconnection attempt k, counted from the last open, is
\* 2^k * baseDelay, for k = 1..maxReconnectAttempts: 2000, 4000, 8000 ms.
C8_BackoffDelays ==
    /\ Len(delays) <= maxReconnectAttempts
    /\ \A k \in 1..Len(delays) : delays[k] = Pow2(k) * baseDelay

\* C8 witness: three attempts in a row were scheduled, with 2000, 4000, 8000 ms.
C8_Witness == delays = <<2000, 4000, 8000>>

\* C9: 0 <= reconnectAttempts <= maxReconnectAttempts, and the counter is 0
\* from every open event until the next close event.
C9_AttemptCounter ==
    /\ reconnectAttempts \in 0..maxReconnectAttempts
    /\ consecCloses = 0 => reconnectAttempts = 0

\* C9 witness: the counter is at its maximum and one more close found the
\* budget spent and left the counter where it was.
C9_Witness ==
    /\ reconnectAttempts = maxReconnectAttempts
    /\ consecCloses > maxReconnectAttempts
    /\ nMaxReached = 1

\* C10: the client owns at most one transport handle that is connecting or open.
C10_OneTransport ==
    Cardinality({h \in Handles : hstate[h] \in {"connecting", "open"}}) <= 1

\* C11: interrupt() called while the client is not connected changes nothing:
\* the outbound queue never holds an interrupt message, and an interrupt frame
\* reaches a handle only in a step taken while the client is connected, which
\* appends that one frame to the current handle and leaves the queue alone (so
\* no drain after a later open sends one).
C11_InterruptDropped ==
    [][/\ \A i \in 1..Len(messageQueue') : messageQueue'[i].type \in MsgTypes
       /\ (~isConnected \/ ws = 0) => InterruptCall(Cur) = Cur
       /\ \A h \in Handles :
              InterruptsOn(h)' # InterruptsOn(h)
                  => /\ isConnected /\ ws = h
                     /\ wire' = [wire EXCEPT ![h] = Append(@, InterruptFrame)]
                     /\ messageQueue' = messageQueue]_vars

\* C11 witness: interrupt() was called before the only connection opened; the
\* connection is Active, has taken the configure frame and a queued message,
\* and no interrupt frame.
C11_Witness ==
    /\ interruptDropped /\ nextHandle = 2 /\ ActiveOnCurrent
    /\ Len(wire[1]) >= 2 /\ wire[1][2].type \in MsgTypes
    /\ InterruptsOn(1) = 0 /\ nInterrupts = 0

\* C12: interrupt() called while the client is Active (isActive() is true)
\* returns normally, appends exactly one interrupt frame to the current handle
\* and changes nothing else: queue, session id, connection state and attempt
\* counter stay as they were.
C12_InterruptImmediate ==
    isConnected =>
        LET r == InterruptCall(Cur) IN
        /\ r.status = "ok"
        /\ ws # 0
        /\ [r EXCEPT !.nInterrupts = nInterrupts]
             = [Cur EXCEPT !.wire[ws] = Append(@, InterruptFrame)]

\* C13: while the client is not connected, a send* call of any kind returns
\* normally and appends its one message at the tail of the queue; nothing else
\* changes, no event is raised and no frame reaches a handle.  The step that
\* takes a send* call does exactly that.
C13_SendQueuesOffline ==
    [][~isConnected =>
         /\ \A t \in MsgTypes :
                LET r == SendCall(Cur, t) IN
                /\ r.status = "ok"
                /\ [r EXCEPT !.offline = offline]
                     = [Cur EXCEPT !.messageQueue = Append(@, NewMessage(t)),
                                   !.nextId = @ + 1]
         /\ nextId' # nextId =>
                /\ \E t \in MsgTypes : messageQueue' = Append(messageQueue, NewMessage(t))
                /\ emitted' = <<>>
                /\ UNCHANGED <<ws, isConnected, sessionId, reconnectAttempts, hstate,
                               promise, wire, pendingTimers, nextHandle, halted>>]_vars

\* C13 witness: with a reconnect pending and the client not connected, two
\* send* calls have put their messages in the queue, in call order.
C13_Witness ==
    /\ ~isConnected /\ pendingTimers > 0 /\ consecCloses > 0
    /\ Len(messageQueue) = 2
    /\ messageQueue[1].id = 1 /\ messageQueue[2].id = 2
    /\ offline = {1, 2}

\* C14: a send* call whose write to the transport fails leaves its message at
\* the front of the queue, ahead of every message that was queued before.
C14_FailedWriteToFront ==
    \A t \in MsgTypes :
        LET r == SendCall(Cur, t) IN
        r.status = "threw" => r.messageQueue = <<NewMessage(t)>> \o messageQueue

\* C15: the drain of the queue always ends: no handler is left looping in
\* processQueue.
C15_DrainTerminates ==
    halted # "hung"

\* C16: on every handle the first inbound frame that carries a session id sets
\* the session id to the value of that frame and raises 'session' once, and no
\* later frame on that handle raises 'session'.
C16_SessionPerConnection ==
    [][\A h \in Handles :
          /\ (SidFrameOn(h)' /\ ~sidSeen[h]
                => sessionId' = inbound'.frame.sid /\ NRaised("session")' = 1)
          /\ (inbound'.h = h /\ sidSeen[h] => NRaised("session")' = 0)]_vars

\* C17: whenever the client is not connected the session id is unset, so that
\* getSessionId() returns null and a message created then carries no stamp.
C17_SessionClearedOnClose ==
    ~isConnected => sessionId = 0 /\ \A t \in MsgTypes : NewMessage(t).sid = 0

\* C18: from a state where the session id is known, every data frame that a
\* step hands to a handle carries that session id.
C18_FramesCarrySession ==
    [][sessionId # 0 =>
         \A h \in Handles : \A i \in (Len(wire[h]) + 1)..Len(wire'[h]) :
             wire'[h][i].type \in MsgTypes => wire'[h][i].sid = sessionId]_vars

\* C19: in every state disconnect() returns normally and leaves the queue
\* empty, the session id unset and isActive() false.
C19_DisconnectClears ==
    LET r == DisconnectCall(Cur) IN
    /\ r.status = "ok"
    /\ r.messageQueue = <<>>
    /\ r.sessionId = 0
    /\ ~r.isConnected

\* C20: a step that handles an inbound frame which does not parse raises one
\* 'error' event and nothing else, and leaves the connection state, the
\* transport handle and its socket, the queue, the session id, the attempt
\* counter and the timers as they were.
C20_ParseErrorNonFatal ==
    [][inbound'.h # 0 /\ ~inbound'.frame.ok =>
         /\ emitted' = <<Ev("error", 0)>>
         /\ UNCHANGED <<ws, isConnected, sessionId, messageQueue, reconnectAttempts,
                        hstate, promise, wire, pendingTimers, nextHandle, halted>>]_vars

\* C20 witness: an Active client with a session id has just been given a frame
\* that does not parse, and is still Active with the same session id.
C20_Witness ==
    /\ inbound.h # 0 /\ inbound.h = ws /\ ~inbound.frame.ok
    /\ ActiveOnCurrent /\ sessionId # 0
    /\ emitted = <<Ev("error", 0)>>

\* C21: a step that handles an inbound frame which parses raises exactly one
\* typed event: the one named by the type of the frame when the type is text,
\* audio, function_call, thinking, error or chunk, and 'chunk' for every other
\* type.
C21_OneTypedEvent ==
    [][inbound'.h # 0 /\ inbound'.frame.ok =>
         /\ Len(TypedEvents(emitted')) = 1
         /\ TypedEvents(emitted')[1].name =
                IF inbound'.frame.type \in KnownTypes THEN inbound'.frame.type ELSE "chunk"]_vars

\* C22: the events raised for the inbound frames are, in arrival order, one per
\* frame; the event of a text frame is 'text' with the content of the frame,
\* the event of a function_call frame is 'function_call' with its name and
\* arguments; and the data frames of the send* calls are on every wire in call
\* order, all of them on some wire once the client is Active.
C22_EventsInArrivalOrder ==
    LET typed == TypedEvents(eventLog) IN
    /\ Len(typed) = Len(frameLog)
    /\ \A i \in 1..Len(frameLog) :
          /\ frameLog[i].type = "text" => typed[i] = Ev("text", frameLog[i].content)
          /\ frameLog[i].type = "function_call" =>
                 typed[i] = Ev("function_call", [name |-> frameLog[i].function_name,
                                                 arguments |-> frameLog[i].arguments])
    /\ \A h \in Handles : InCallOrder(h)
    /\ ActiveOnCurrent => Delivered = 1..(nextId - 1)

\* C22 witness: two sendText calls reached the transport in order, then a
\* function_call frame "lookup" and a text frame "c2" arrived and their events
\* were raised in that order.
C22_Witness ==
    /\ Len(wire[1]) = 3
    /\ wire[1][2].type = "text" /\ wire[1][2].id = 1
    /\ wire[1][3].type = "text" /\ wire[1][3].id = 2
    /\ frameLog = <<Frame(0, "function_call", "none", "lookup", "q"),
                    Frame(0, "text", "c2", "none", "none")>>
    /\ eventLog = <<Ev("function_call", [name |-> "lookup", arguments |-> "q"]),
                    Ev("text", "c2")>>

\* C24: when the first connect() fails to open, its promise is rejected and no
\* reconnection is started: no timer is armed and the attempt counter stays.
C24_FirstConnectNoReconnect ==
    [][nextHandle = 2 /\ origin[1] = "caller" /\ hstate[1] = "connecting"
         /\ hstate'[1] = "closed"
         => /\ promise'[1] = "rejected"
            /\ pendingTimers' = pendingTimers
            /\ reconnectAttempts' = reconnectAttempts]_vars

\* C25: the step in which a connect() is rejected by its timeout arms no timer
\* and leaves the attempt counter and the connection state alone, and the
\* socket of a timed-out connect() neither makes the client connected nor arms
\* a reconnect timer afterwards.
C25_TimeoutNoReconnect ==
    [][\A h \in Handles :
          /\ (~TimedOut(h) /\ TimedOut(h)'
                => UNCHANGED <<pendingTimers, reconnectAttempts, nextHandle, isConnected>>)
          /\ (TimedOut(h) /\ hstate'[h] # hstate[h]
                => /\ isConnected' => isConnected
                   /\ pendingTimers' <= pendingTimers)]_vars

\* C26: 'reconnect' is raised only when a connection had been open before, with
\* the client connected and the attempt counter 0, and it is raised once by
\* every open that follows an earlier open.
C26_ReconnectEvent ==
    [][/\ Raised("reconnect")'
            => everOpened /\ isConnected' /\ reconnectAttempts' = 0
       /\ \A h \in Handles :
              everOpened /\ hstate[h] = "connecting" /\ hstate'[h] = "open"
                  => NRaised("reconnect")' = 1]_vars

\* C27: a handle that has opened has taken exactly one configure frame, equal
\* to the frame built from the construction-time configuration, and no handle
\* has taken two.
C27_OneConfigurePerOpen ==
    \A h \in Handles :
        /\ Configures(h) <= 1
        /\ hstate[h] \in {"open", "closing", "peerClosing"} => Configures(h) = 1
        /\ \A i \in 1..Len(wire[h]) : wire[h][i].type = "configure" => wire[h][i] = ConfigFrame

\* C23: the promise of every connect() is eventually resolved or rejected, as
\* long as the process runs.
C23_ConnectSettles ==
    \A h \in Handles : Unsettled(h) ~> (~Unsettled(h) \/ ~Running)

C29_MessageConservation ==
    [][~Disconnect =>
          \A id \in 1..(nextId' - 1) :
              Queued(id)' + Handed(id)' = IF id < nextId THEN Queued(id) ELSE 1]_vars

\* C29 witness: a message whose ws.send failed on a connected client was put on
\* the queue and was handed to the transport by the drain of the next open.
C29_Witness ==
    /\ nextId = 2 /\ offline = {} /\ messageQueue = <<>>
    /\ Raised("reconnect") /\ HandedOver = <<1>>
    /\ ws = 2 /\ DataIds(wire[2]) = <<1>>

\* C30: the messages are handed to the transport in the order of the send*
\* calls: within a step in ascending order, and no message is handed over while
\* an earlier one is still on the queue.
C30_GlobalSendOrder ==
    [][/\ \A i, j \in 1..Len(HandedOver') : i < j => HandedOver'[i] < HandedOver'[j]
       /\ \A i \in 1..Len(HandedOver'), k \in 1..Len(messageQueue') :
              HandedOver'[i] < messageQueue'[k].id]_vars

\* C30 witness: the first message could not be sent and was queued, the second
\* was queued while the client was not connected, and the drain of the next
\* open handed both over in call order.
C30_Witness ==
    /\ nextId = 3 /\ offline = {2} /\ messageQueue = <<>>
    /\ Raised("reconnect") /\ HandedOver = <<1, 2>>
    /\ ws = 2 /\ DataIds(wire[2]) = <<1, 2>>

\* C31: whenever the client is connected and its current socket takes writes,
\* the queue is empty: a message that was put back after a failed write is handed
\* to the transport by the open handler of the socket that takes writes again,
\* and does not wait for a later reconnection.
C31_RequeuedIsSent ==
    ActiveOnCurrent => messageQueue = <<>>

\* C31 witness: the write of message 1 failed while the client was connected
\* (this.ws was the connecting socket of a second connect()), the client stayed
\* connected, and the open of that socket handed the message to the transport.
C31_Witness ==
    /\ lifecycle = "live" /\ consecCloses = 0 /\ ActiveOnCurrent
    /\ ws = 2 /\ origin[2] = "caller" /\ hstate[1] = "open"
    /\ nextId = 2 /\ offline = {} /\ HandedOver = <<1>>
    /\ DataIds(wire[2]) = <<1>> /\ messageQueue = <<>>

\* C32: after every step, isActive() is true only if this.ws is set and that
\* socket is open, and the 'open' or 'close' event of a handle other than
\* this.ws leaves isActive() as it was.
C32_ActiveMeansCurrentOpen ==
    [][/\ isConnected' => ws' # 0 /\ hstate'[ws'] = "open"
       /\ \A h \in Handles : StaleEvent(h) => isConnected' = isConnected]_vars

\* C33: from a state where the session id is set, every step other than
\* disconnect() leaves it as it is and raises no 'session' event, whatever
\* session id an inbound frame carries.
C33_SessionIdSticks ==
    [][sessionId # 0 /\ ~Disconnect
          => sessionId' = sessionId /\ ~Raised("session")']_vars

\* C33 witness: the session id is 1 and the last step handled a frame that
\* carries session id 2.
C33_Witness ==
    /\ sessionId = 1 /\ inbound.h # 0 /\ inbound.frame.ok
    /\ inbound.frame.sid = 2 /\ ~Raised("session")

\* C34: when a frame of a recognized type carries a session id and none is set,
\* 'session' with that id is the first event of the step, one more event follows
\* it, getSessionId() returns the new id to the listeners of that event, and the
\* id is set after the step.
C34_SessionBeforeTyped ==
    [][(inbound'.h # 0 /\ inbound'.frame.ok /\ inbound'.frame.sid # 0
           /\ inbound'.frame.type \in KnownTypes /\ sessionId = 0)
          => /\ Len(emitted') = 2
             /\ emitted'[1] = Ev("session", inbound'.frame.sid)
             /\ emitted'[2].name # "session"
             /\ sidHeard'[2] = inbound'.frame.sid
             /\ sessionId' = inbound'.frame.sid]_vars

\* C34 witness: a function_call frame with session id 1 arrived while no session
\* id was set; 'session' was raised, then 'function_call', whose listeners were
\* given session id 1.
C34_Witness ==
    /\ inbound.h # 0 /\ inbound.frame = Frame(1, "function_call", "none", "lookup", "q")
    /\ emitted = <<Ev("session", 1),
                   Ev("function_call", [name |-> "lookup", arguments |-> "q"])>>
    /\ sidHeard = <<1, 1>> /\ sessionId = 1

\* C35: every configure frame carries the interruption threshold, the VAD flag
\* and the search grounding flag that were supplied at construction, and the
\* defaults 0.5, true and false for the fields that were omitted.
C35_ConfigureCarriesConfig ==
    \A f \in ConfigureFrames :
        /\ f.config.vad_config.interruption_threshold =
               IF "interruptionThreshold" \in supplied.given
               THEN supplied.interruptionThreshold ELSE defaultThreshold
        /\ f.config.vad_config.enabled =
               IF "vadEnabled" \in supplied.given THEN supplied.vadEnabled ELSE TRUE
        /\ f.config.tools.search_grounding =
               IF "searchGrounding" \in supplied.given THEN supplied.searchGrounding ELSE FALSE

====
